---- MODULE Spec2Model ----
(***************************************************************************)
(* Model of the layout placement engine of DesignTool-SNG (src/Page3.py):  *)
(* get_furniture_dimensions, check_collision, generate_layouts, the 2D and *)
(* 3D visualizations, and the RoomLayoutApp handlers that call them.       *)
(*                                                                         *)
(* Lengths are integers in hundredths of a foot (6.67 ft = 667), so the    *)
(* catalog's fractional dimensions are exact.  A model output p stands for *)
(* the normalized value p / 100.  np.random.uniform(low, high) is          *)
(* low + (high - low) * r with r drawn from {0/N, ..., (N-1)/N},           *)
(* N = NumSamples.  A Python value that may be None is a sequence of       *)
(* length 0 (None) or 1 (the value).                                       *)
(***************************************************************************)
EXTENDS Integers, Sequences, FiniteSets, TLC

VARIABLES
    model,               \* module-level model: "None" or "loaded"
    pc,                  \* position in a stepwise call of generate_layouts
    caller,              \* "direct" or "app": who called generate_layouts last
    room_dimensions,     \* argument of generate_layouts
    selected_furniture,  \* argument of generate_layouts
    predictions,         \* None or one <<x, y>> row per furniture item
    layouts,             \* the list under construction
    i,                   \* number of items the for loop has finished
    attempts,
    placed,
    hint_candidate,      \* the candidate attempt 0 built from the item's hint, or None
    source,              \* how the last candidate was drawn: "hint" or "random"
    tested,              \* candidates tested for the current item
    printed,             \* warnings printed by the current call
    result,              \* None or the returned list
    app,                 \* RoomLayoutApp: "unconstructed", "ready", "destroyed"
    room_type_var,
    furniture_listbox,
    width_entry,
    length_entry,
    height_entry,
    selected_furniture_list,
    furniture_layout,    \* None (attribute not set yet) or the stored layout
    replaced,            \* None or the type names of the list that the last
                         \* assignment to furniture_layout dropped
    rendered,            \* None or the layout that both canvases show
    requests,            \* clicks on "Generate Layout" so far
    outcome,             \* of the last click: "none", "rejected", "returned",
                         \* "error" (generate_layouts raised), "draw_error"
    item1,               \* arguments of a call of check_collision
    item2,
    collides,            \* None or the value the call returned
    files,               \* asset files on disk: 2D images and 3D model files
    furniture_layouts,   \* argument of visualize_layouts and visualize_layouts_3d
    figure,              \* canvas.figure of the 2D canvas: None or its artists
    figure_before,       \* canvas.figure when the last 2D call began
    ax,                  \* artists on the 3D axes
    ax_before,           \* artists on the 3D axes when the last 3D call began
    drawn,               \* items the loop of visualize_layouts_3d has drawn
    objects,             \* mesh objects of the last loop iteration, by identity
    scale_factor,        \* None or the value of calculate_scale_factor
    view_pc,             \* visualize_layouts_3d: "idle", "items", "drawn", "raised"
    stored_room_dimensions, \* MainApplication.room_dimensions, in 1e-4 m
    toolbar_buttons,     \* style of each toolbar button, by page name
    pages,               \* "gridded" or "removed" for each page, by page name
    page_name,           \* None or the argument of the last show_page call
    length_var,          \* RoomTypePage: texts of the dimension entries
    width_var,
    height_var,
    validated            \* None or what the last validate_dimensions returned

engineVars == <<pc, caller, room_dimensions, selected_furniture, predictions,
                layouts, i, attempts, placed, hint_candidate, source, tested,
                printed, result>>
uiVars == <<room_type_var, furniture_listbox, width_entry, length_entry,
            height_entry, selected_furniture_list>>
appVars == <<app, uiVars, furniture_layout, replaced, rendered, requests, outcome>>
fnVars == <<item1, item2, collides>>
viewVars == <<files, furniture_layouts, figure, figure_before, ax, ax_before,
              drawn, objects, scale_factor, view_pc>>
mainVars == <<stored_room_dimensions, toolbar_buttons, pages, page_name,
              length_var, width_var, height_var, validated>>
vars == <<model, engineVars, appVars, fnVars, viewVars, mainVars>>

(***************************************************************************)
(* Bounds of the model                                                     *)
(***************************************************************************)
MaxItems == 3        \* longest furniture list of a direct call
NumSamples == 2      \* samples per axis of np.random.uniform
MaxEntries == 1      \* longest selected-furniture list of the application
MaxRequests == 2     \* clicks on "Generate Layout" in one session
MaxUnlisted == 2     \* longest furniture list with names outside the catalog
GridSize == 2        \* corners of the rectangles compared lie at 0..GridSize feet
MaxDrawn == 2        \* longest layout handed to the visualizations
MaxListed == 2       \* longest selected-furniture list of a first request
MaxQuantity == 2     \* largest number typed into the quantity spinbox

None == <<>>
Some(v) == <<v>>

Max(a, b) == IF a >= b THEN a ELSE b
Min(a, b) == IF a <= b THEN a ELSE b

RECURSIVE SeqsUpTo(_, _)
SeqsUpTo(S, n) ==
    IF n = 0 THEN {<<>>}
    ELSE LET shorter == SeqsUpTo(S, n - 1)
         IN  shorter \cup {Append(s, e) : s \in shorter, e \in S}

\* Furniture type names the model feeds to the engine.
FurnitureInputs == {"Bed", "Nightstand"}
\* A type name that get_furniture_dimensions does not know.
UnlistedInputs == {"Lamp"}
\* Furniture lists that end with such a name.
UnlistedLists ==
    { Append(s, t) : s \in SeqsUpTo(FurnitureInputs, MaxUnlisted - 1),
                     t \in UnlistedInputs }
\* Rooms (hundredths of a foot): 7 x 7 x 8 and 4 x 4 x 8.
Rooms == { [width |-> 700, length |-> 700, height |-> 800],
           [width |-> 400, length |-> 400, height |-> 800] }
\* Rows the predictive model may output (percent of the room side); the
\* components fall below 0, inside [0, 1] and above 1.
HintRows == { <<-50, 150>>, <<50, 50>> }

(***************************************************************************)
(* get_furniture_dimensions                                                *)
(***************************************************************************)
Dims(w, d, h) == [width |-> w, depth |-> d, height |-> h]

dimensions ==
    [t \in {"Bed", "Sofa", "TV Stand", "Coffee Table", "Nightstand", "Dresser",
            "Wardrobe", "Armchair", "Toilet", "Sink", "Shower", "Bathtub",
            "Door", "Window"} |->
        CASE t = "Bed"          -> Dims(667, 500, 250)
          [] t = "Sofa"         -> Dims(600, 300, 300)
          [] t = "TV Stand"     -> Dims(500, 150, 200)
          [] t = "Coffee Table" -> Dims(400, 200, 150)
          [] t = "Nightstand"   -> Dims(200, 200, 200)
          [] t = "Dresser"      -> Dims(400, 200, 400)
          [] t = "Wardrobe"     -> Dims(400, 200, 700)
          [] t = "Armchair"     -> Dims(300, 300, 300)
          [] t = "Toilet"       -> Dims(250, 200, 250)
          [] t = "Sink"         -> Dims(200, 150, 250)
          [] t = "Shower"       -> Dims(300, 300, 700)
          [] t = "Bathtub"      -> Dims(500, 250, 200)
          [] t = "Door"         -> Dims(300, 10, 700)
          [] t = "Window"       -> Dims(400, 10, 400)]

get_furniture_dimensions_other_default(furniture_type) ==
    IF furniture_type \in DOMAIN dimensions
    THEN dimensions[furniture_type]
    ELSE Dims(100, 100, 100)

get_furniture_dimensions(furniture_type) ==
    IF furniture_type \in DOMAIN dimensions
    THEN dimensions[furniture_type]
    ELSE Dims(200, 200, 200)

(***************************************************************************)
(* check_collision                                                         *)
(***************************************************************************)
check_collision_touching(a, b) ==
    LET x1 == a.position.x
        y1 == a.position.y
        w1 == a.dimensions.width
        d1 == a.dimensions.depth
        x2 == b.position.x
        y2 == b.position.y
        w2 == b.dimensions.width
        d2 == b.dimensions.depth
    IN  ~(x1 + w1 < x2 \/ x2 + w2 < x1 \/ y1 + d1 < y2 \/ y2 + d2 < y1)

check_collision(a, b) ==
    LET x1 == a.position.x
        y1 == a.position.y
        w1 == a.dimensions.width
        d1 == a.dimensions.depth
        x2 == b.position.x
        y2 == b.position.y
        w2 == b.dimensions.width
        d2 == b.dimensions.depth
    IN  ~(x1 + w1 <= x2 \/ x2 + w2 <= x1 \/ y1 + d1 <= y2 \/ y2 + d2 <= y1)

(***************************************************************************)
(* generate_layouts                                                        *)
(***************************************************************************)
max_attempts == 50

room_width == room_dimensions.width
room_length == room_dimensions.length

\* The item the for loop is at (enumerate is 0-based, sequences 1-based).
furniture == selected_furniture[i + 1]

\* np.random.uniform(low, high) for the sample r / NumSamples in [0, 1).
uniform(low, high, r) == low + ((high - low) * r) \div NumSamples

\* max(0, min(prediction * room side, room side - item side))
hint_position(p, side, size) == Max(0, Min((p * side) \div 100, side - size))

\* Lines 282-287.
make_item(furniture_type, pos_x, pos_y) ==
    [type |-> furniture_type,
     position |-> [x |-> pos_x, y |-> pos_y],
     rotation |-> 0,
     dimensions |-> get_furniture_dimensions(furniture_type)]

\* Lines 276-277: the candidate of attempt 0 for the prediction row p.
hint_item(room, furniture_type, p) ==
    LET furniture_dims == get_furniture_dimensions(furniture_type)
    IN  make_item(furniture_type,
                  hint_position(p[1], room.width, furniture_dims.width),
                  hint_position(p[2], room.length, furniture_dims.depth))

random_items_whole_room(room, furniture_type) ==
    { make_item(furniture_type,
                uniform(0, room.width, rx), uniform(0, room.length, ry)) :
        rx \in 0..(NumSamples - 1), ry \in 0..(NumSamples - 1) }

\* Lines 279-280: the candidates random sampling can draw.
random_items(room, furniture_type) ==
    LET furniture_dims == get_furniture_dimensions(furniture_type)
    IN  { make_item(furniture_type,
                    uniform(0, room.width - furniture_dims.width, rx),
                    uniform(0, room.length - furniture_dims.depth, ry)) :
            rx \in 0..(NumSamples - 1), ry \in 0..(NumSamples - 1) }

has_collision_never(item, placed_items) == FALSE

has_collision_skip_first(item, placed_items) ==
    \E k \in 2..Len(placed_items) : check_collision(item, placed_items[k])

\* Lines 289-293: for existing_item in layouts: if check_collision(...)
has_collision(item, placed_items) ==
    \E k \in 1..Len(placed_items) : check_collision(item, placed_items[k])

while_cond_off_by_one(attempts_made, is_placed) ==
    attempts_made <= max_attempts /\ ~is_placed

\* Line 274: while attempts < max_attempts and not placed
while_cond(attempts_made, is_placed) ==
    attempts_made < max_attempts /\ ~is_placed

use_hint_never(attempts_made, rows) == FALSE

use_hint_every_attempt(attempts_made, rows) == rows # None

\* Line 275: if attempts == 0 and predictions is not None
use_hint(attempts_made, rows) == attempts_made = 0 /\ rows # None

\* Lines 261-267: X holds the same feature row (the room's width, length and
\* height and four zeros) for every item, and model.predict maps each row of
\* X to a row of its output: equal rows of X give equal rows of predictions.
PredictionRows(n) == { [k \in 1..n |-> row] : row \in HintRows }

\* Lines 254-267 with model None: predictions = None.
NoModel ==
    /\ pc = "start"
    /\ model = "None"
    /\ predictions' = None
    /\ layouts' = <<>>
    /\ pc' = "for"
    /\ UNCHANGED <<model, fnVars, viewVars, mainVars,
                   caller, room_dimensions, selected_furniture, i,
                   attempts, placed, hint_candidate, source, tested, printed, result,
                   appVars>>

\* Lines 254-267 with a model whose predict call returns.
Predict ==
    /\ pc = "start"
    /\ model = "loaded"
    /\ \E rows \in PredictionRows(Len(selected_furniture)) :
           predictions' = Some(rows)
    /\ layouts' = <<>>
    /\ pc' = "for"
    /\ UNCHANGED <<model, fnVars, viewVars, mainVars,
                   caller, room_dimensions, selected_furniture, i,
                   attempts, placed, hint_candidate, source, tested, printed, result,
                   appVars>>

\* Line 267 when model.predict raises: the except clause prints and re-raises.
PredictFails ==
    /\ pc = "start"
    /\ model = "loaded"
    /\ layouts' = <<>>
    /\ pc' = "raised"
    /\ UNCHANGED <<model, fnVars, viewVars, mainVars,
                   caller, room_dimensions, selected_furniture,
                   predictions, i, attempts, placed, hint_candidate, source,
                   tested, printed, result, appVars>>

\* Lines 269-272: the for loop takes the next item.
ForNext ==
    /\ pc = "for"
    /\ i < Len(selected_furniture)
    /\ attempts' = 0
    /\ placed' = FALSE
    /\ tested' = 0
    /\ hint_candidate' = None
    /\ pc' = "while"
    /\ UNCHANGED <<model, fnVars, viewVars, mainVars,
                   caller, room_dimensions, selected_furniture,
                   predictions, layouts, i, source, printed, result,
                   appVars>>

TestCandidate_placed_not_set(item) ==
    /\ tested' = tested + 1
    /\ IF ~has_collision(item, layouts)
       THEN /\ layouts' = Append(layouts, item)
            /\ UNCHANGED <<placed, attempts>>
       ELSE /\ attempts' = attempts + 1
            /\ UNCHANGED <<layouts, placed>>

TestCandidate_inserts_first(item) ==
    /\ tested' = tested + 1
    /\ IF ~has_collision(item, layouts)
       THEN /\ layouts' = <<item>> \o layouts
            /\ placed' = TRUE
            /\ attempts' = attempts
       ELSE /\ attempts' = attempts + 1
            /\ UNCHANGED <<layouts, placed>>

\* Lines 282-299: test the candidate, commit it or count the attempt.
TestCandidate(item) ==
    /\ tested' = tested + 1
    /\ IF ~has_collision(item, layouts)
       THEN /\ layouts' = Append(layouts, item)
            /\ placed' = TRUE
            /\ attempts' = attempts
       ELSE /\ attempts' = attempts + 1
            /\ UNCHANGED <<layouts, placed>>

\* Lines 274-277: attempt 0 with predictions.
AttemptHint ==
    /\ pc = "while"
    /\ while_cond(attempts, placed)
    /\ use_hint(attempts, predictions)
    /\ LET item == hint_item(room_dimensions, furniture, predictions[1][i + 1])
       IN  TestCandidate(item) /\ hint_candidate' = Some(item)
    /\ source' = "hint"
    /\ UNCHANGED <<model, fnVars, viewVars, mainVars,
                   pc, caller, room_dimensions, selected_furniture,
                   predictions, i, printed, result, appVars>>

\* Lines 278-280: every other attempt.
AttemptRandom ==
    /\ pc = "while"
    /\ while_cond(attempts, placed)
    /\ ~use_hint(attempts, predictions)
    /\ \E item \in random_items(room_dimensions, furniture) : TestCandidate(item)
    /\ source' = "random"
    /\ UNCHANGED <<model, fnVars, viewVars, mainVars,
                   pc, caller, room_dimensions, selected_furniture,
                   predictions, i, hint_candidate, printed, result, appVars>>

warn_cond_never(is_placed) == FALSE

\* Line 301: if not placed
warn_cond(is_placed) == ~is_placed

\* Lines 274, 301-302: the while loop ends; an unplaced item is reported.
WhileExit ==
    /\ pc = "while"
    /\ ~while_cond(attempts, placed)
    /\ printed' = IF warn_cond(placed) THEN Append(printed, furniture) ELSE printed
    /\ i' = i + 1
    /\ pc' = "for"
    /\ UNCHANGED <<model, fnVars, viewVars, mainVars,
                   caller, room_dimensions, selected_furniture,
                   predictions, layouts, attempts, placed, hint_candidate, source,
                   tested, result, appVars>>

\* The warnings carried by the value returned at line 304: the value is the
\* list of placed items alone, the warnings went to standard output.
returned_warnings == <<>>

\* Line 304: return layouts.
Return ==
    /\ pc = "for"
    /\ i >= Len(selected_furniture)
    /\ result' = Some(layouts)
    /\ pc' = "done"
    /\ UNCHANGED <<model, fnVars, viewVars, mainVars,
                   caller, room_dimensions, selected_furniture,
                   predictions, layouts, i, attempts, placed, hint_candidate, source,
                   tested, printed, appVars>>

EngineStep ==
    \/ NoModel
    \/ Predict
    \/ PredictFails
    \/ ForNext
    \/ AttemptHint
    \/ AttemptRandom
    \/ WhileExit
    \/ Return

(***************************************************************************)
(* generate_layouts as one call: the runs of the loops above, as the set   *)
(* of their results.  A handler of the application runs the whole call.    *)
(***************************************************************************)
RECURSIVE while_loop(_, _, _, _, _, _)
\* Lines 274-299 from attempt attempts_made on, item k of the list: the item
\* is committed at a candidate that does not collide, and the loop goes on to
\* the next attempt when a candidate collides.
while_loop(room, furniture_type, rows, k, placed_items, attempts_made) ==
    IF ~while_cond(attempts_made, FALSE)
    THEN {[layouts |-> placed_items, placed |-> FALSE]}
    ELSE LET candidates == IF use_hint(attempts_made, rows)
                           THEN {hint_item(room, furniture_type, rows[1][k])}
                           ELSE random_items(room, furniture_type)
             free == {c \in candidates : ~has_collision(c, placed_items)}
         IN  {[layouts |-> Append(placed_items, c), placed |-> TRUE] : c \in free}
             \cup (IF free # candidates
                   THEN while_loop(room, furniture_type, rows, k, placed_items,
                                   attempts_made + 1)
                   ELSE {})

RECURSIVE for_loop(_, _, _, _, _, _)
\* Lines 269-302 from item k on.
for_loop(room, furniture_types, rows, k, placed_items, warnings) ==
    IF k > Len(furniture_types)
    THEN {[layouts |-> placed_items, printed |-> warnings]}
    ELSE UNION { for_loop(room, furniture_types, rows, k + 1, w.layouts,
                          IF warn_cond(w.placed)
                          THEN Append(warnings, furniture_types[k])
                          ELSE warnings) :
                   w \in while_loop(room, furniture_types[k], rows, k,
                                    placed_items, 0) }

generate_layouts_onto_earlier(room, furniture_types, rows) ==
    for_loop(room, furniture_types, rows, 1, layouts, <<>>)

\* Lines 258-304: the results of a call whose predictions are rows.
generate_layouts(room, furniture_types, rows) ==
    for_loop(room, furniture_types, rows, 1, <<>>, <<>>)

(***************************************************************************)
(* 3D model files, load_3d_model and calculate_scale_factor                *)
(*                                                                         *)
(* A mesh is its set of vertices; the faces index the vertices and no      *)
(* transformation touches them.  The coordinates of a mesh are the numbers *)
(* in vertices divided by den, so that a scaled mesh is exact.             *)
(***************************************************************************)
Trimesh(vertices) == [vertices |-> vertices, den |-> 1]

\* Vertex sets stored in model files: a shape whose bounding box starts at
\* the origin (extents 4 x 2 x 1) and one whose bounding box starts at
\* (-1, 0.5, 0.2) (extents 2 x 2 x 2).
MeshAtOrigin == { <<0, 0, 0>>, <<400, 0, 0>>, <<0, 200, 0>>, <<0, 0, 100>> }
MeshOffOrigin == { <<-100, 50, 20>>, <<100, 50, 20>>, <<-100, 250, 20>>,
                   <<-100, 50, 220>> }

ModelFile(format, content, vertices) ==
    [format |-> format, content |-> content, vertices |-> vertices]

\* What assets/3d_models may hold for one furniture type: no file, a file
\* the loader cannot read, a file with no geometry, a file with a mesh.
ModelFiles ==
    { ModelFile("none", "none", {}),
      ModelFile(".dae", "unreadable", {}),
      ModelFile(".obj", "empty", {}),
      ModelFile(".dae", "empty", {}),
      ModelFile(".dae", "mesh", MeshAtOrigin),
      ModelFile(".obj", "mesh", MeshOffOrigin) }

\* Lines 116-128: the path of the first file that exists, or None.
get_safe_model_path(furniture_type, models) ==
    IF models[furniture_type].format = "none"
    THEN None
    ELSE Some(<<furniture_type, models[furniture_type].format>>)

\* Lines 130-189.  A .dae file is parsed by collada and the Trimesh built from
\* its vertices is returned as it is (lines 165-168), also when the file has
\* no geometry; for the other formats an empty mesh gives None (177-179).
\* Every exception of the loaders gives None (170-172, 185-189).
load_3d_model(model_path, models) ==
    IF model_path = None THEN None
    ELSE LET file == models[model_path[1][1]]
         IN  IF model_path[1][2] = ".dae"
             THEN IF file.content = "unreadable" THEN None
                  ELSE Some(Trimesh(file.vertices))
             ELSE IF file.content = "unreadable" THEN None
                  ELSE IF file.vertices = {} THEN None
                  ELSE Some(Trimesh(file.vertices))

Lowest(S) == CHOOSE m \in S : \A e \in S : m <= e
Highest(S) == CHOOSE m \in S : \A e \in S : m >= e
Coordinates(mesh, axis) == {v[axis] : v \in mesh.vertices}

\* mesh.bounds[0]: the minimum corner (over mesh.den); None for an empty mesh.
bounds_min(mesh) ==
    IF mesh.vertices = {} THEN None
    ELSE Some([axis \in 1..3 |-> Lowest(Coordinates(mesh, axis))])

\* mesh.extents: max - min per axis (over mesh.den); None for an empty mesh.
extents(mesh) ==
    IF mesh.vertices = {} THEN None
    ELSE Some([axis \in 1..3 |->
                  Highest(Coordinates(mesh, axis)) - Lowest(Coordinates(mesh, axis))])

\* A quotient num / den of two numbers, kept exact.
Ratio(num, den) == [num |-> num, den |-> den]
RatioLess(a, b) == a.num * b.den < b.num * a.den

\* Python's max of three values.
max(a, b, c) ==
    LET best == IF RatioLess(a, b) THEN b ELSE a
    IN  IF RatioLess(best, c) THEN c ELSE best

\* Python's min of three values: the first of the smallest.
min(a, b, c) ==
    LET best == IF RatioLess(b, a) THEN b ELSE a
    IN  IF RatioLess(c, best) THEN c ELSE best

calculate_scale_factor_max(mesh, target_dims) ==
    LET current_dims == extents(mesh)[1]
        width_scale == Ratio(target_dims.width * mesh.den, current_dims[1])
        depth_scale == Ratio(target_dims.depth * mesh.den, current_dims[2])
        height_scale == Ratio(target_dims.height * mesh.den, current_dims[3])
    IN  max(width_scale, depth_scale, height_scale)

\* Lines 310-316, for a mesh that has extents.
calculate_scale_factor(mesh, target_dims) ==
    LET current_dims == extents(mesh)[1]
        width_scale == Ratio(target_dims.width * mesh.den, current_dims[1])
        depth_scale == Ratio(target_dims.depth * mesh.den, current_dims[2])
        height_scale == Ratio(target_dims.height * mesh.den, current_dims[3])
    IN  min(width_scale, depth_scale, height_scale)

\* mesh.apply_transform(scale_matrix(factor)): every vertex times factor.
apply_transform(mesh, factor) ==
    [vertices |-> { [axis \in 1..3 |-> v[axis] * factor.num] : v \in mesh.vertices },
     den |-> mesh.den * factor.den]

\* mesh.apply_translation(offset): every vertex plus offset.
apply_translation(mesh, offset) ==
    [vertices |-> { [axis \in 1..3 |-> v[axis] + offset[axis] * mesh.den] :
                      v \in mesh.vertices },
     den |-> mesh.den]

(***************************************************************************)
(* visualize_layouts and visualize_layouts_3d                              *)
(*                                                                         *)
(* What a call draws is the sequence of artists it adds to the axes.  An   *)
(* artist has its corner at `at' / den and the side lengths `size'.        *)
(***************************************************************************)
Artist(kind, style, text, at, size, vertices, den) ==
    [artist |-> kind, style |-> style, text |-> text, at |-> at, size |-> size,
     vertices |-> vertices, den |-> den]

ASSET_MAPPING ==
    [t \in {"Bed", "Sofa", "TV Stand", "Coffee Table", "Nightstand", "Dresser",
            "Wardrobe", "Armchair", "Toilet", "Sink", "Shower", "Bathtub",
            "Door", "Window"} |->
        CASE t = "Bed"          -> "assets/images/bed.png"
          [] t = "Sofa"         -> "assets/images/sofa.png"
          [] t = "TV Stand"     -> "assets/images/tv_stand.png"
          [] t = "Coffee Table" -> "assets/images/coffeetable.png"
          [] t = "Nightstand"   -> "assets/images/nightstand.png"
          [] t = "Dresser"      -> "assets/images/dresser.png"
          [] t = "Wardrobe"     -> "assets/images/wardrobe.png"
          [] t = "Armchair"     -> "assets/images/armchair.png"
          [] t = "Toilet"       -> "assets/images/toilet.png"
          [] t = "Sink"         -> "assets/images/sink.png"
          [] t = "Shower"       -> "assets/images/shower.png"
          [] t = "Bathtub"      -> "assets/images/bathtub.png"
          [] t = "Door"         -> "assets/images/door.png"
          [] t = "Window"       -> "assets/images/window.png"]

\* Lines 395-404 and 489-497: the label, anchored at the middle of the item.
label_2d(item) ==
    Artist("Text", "label", item.type,
           <<2 * item.position.x + item.dimensions.width,
             2 * item.position.y + item.dimensions.depth>>, <<>>, {}, 2)

label_3d(item) ==
    Artist("Text", "label", item.type,
           <<2 * item.position.x + item.dimensions.width,
             2 * item.position.y + item.dimensions.depth,
             item.dimensions.height>>, <<>>, {}, 2)

\* A plt.Rectangle over the footprint of the item.
footprint_rectangle(item, color) ==
    Artist("Rectangle", color, "",
           <<item.position.x, item.position.y>>,
           <<item.dimensions.width, item.dimensions.depth>>, {}, 1)

\* Lines 353-392: the shape drawn for one item; images is the set of paths
\* of ASSET_MAPPING that exist.
shape_2d(item, images) ==
    IF item.type \in {"Door", "Window"}
    THEN <<footprint_rectangle(item, IF item.type = "Door" THEN "red" ELSE "blue")>>
    ELSE IF item.type \in DOMAIN ASSET_MAPPING
         THEN IF ASSET_MAPPING[item.type] \in images
              THEN <<Artist("AxesImage", "image", "",
                            <<item.position.x, item.position.y>>,
                            <<item.dimensions.width, item.dimensions.depth>>, {}, 1)>>
              ELSE <<footprint_rectangle(item, "gray")>>
         ELSE <<>>

RECURSIVE draw_items_2d(_, _)
\* Lines 347-404: the loop over the items.
draw_items_2d(layout, images) ==
    IF layout = <<>> THEN <<>>
    ELSE shape_2d(Head(layout), images) \o <<label_2d(Head(layout))>>
             \o draw_items_2d(Tail(layout), images)

\* Lines 331-411: the artists of the new figure.
visualize_layouts(room, layout, images) ==
    <<Artist("Rectangle", "outline", "", <<0, 0>>, <<room.width, room.length>>, {}, 1)>>
        \o draw_items_2d(layout, images)

\* Lines 427-437: the wireframe of the room.
room_frame(room) ==
    << Artist("Line3D", "k-", "", <<0, 0, 0>>, <<room.width, room.length, 0>>, {}, 1),
       Artist("Line3D", "k-", "", <<0, 0, room.height>>,
              <<room.width, room.length, 0>>, {}, 1),
       Artist("Line3D", "k-", "", <<0, 0, 0>>, <<0, 0, room.height>>, {}, 1),
       Artist("Line3D", "k-", "", <<room.width, 0, 0>>, <<0, 0, room.height>>, {}, 1),
       Artist("Line3D", "k-", "", <<room.width, room.length, 0>>,
              <<0, 0, room.height>>, {}, 1),
       Artist("Line3D", "k-", "", <<0, room.length, 0>>, <<0, 0, room.height>>, {}, 1) >>

\* The 2D call: a new figure replaces canvas.figure.
Visualize2D ==
    /\ view_pc # "items"
    /\ figure_before' = figure
    /\ figure' = Some(visualize_layouts(room_dimensions, furniture_layouts,
                                        files.images))
    /\ UNCHANGED <<model, engineVars, appVars, fnVars, mainVars, files, furniture_layouts,
                   ax, ax_before, drawn, objects, scale_factor, view_pc>>

\* No mesh object is bound.
NoObjects == [mesh |-> None, copy |-> None]

ax_clear_skipped(artists) == artists

\* Line 420: ax.clear().
ax_clear(artists) == <<>>

\* Lines 419-437: the 3D call begins: the axes are cleared and the room drawn.
Visualize3DStart ==
    /\ view_pc # "items"
    /\ ax_before' = ax
    /\ ax' = ax_clear(ax) \o room_frame(room_dimensions)
    /\ drawn' = 0
    /\ objects' = NoObjects
    /\ scale_factor' = None
    /\ view_pc' = "items"
    /\ UNCHANGED <<model, engineVars, appVars, fnVars, mainVars, files, furniture_layouts,
                   figure, figure_before>>

\* Line 439: the item the loop is at.
drawn_furniture == furniture_layouts[drawn + 1]

\* Lines 444-445.
loaded_mesh(item, models) ==
    load_3d_model(get_safe_model_path(item.type, models), models)

\* calculate_scale_factor indexes mesh.extents, which is None for a mesh
\* without vertices: line 313 raises TypeError.
scaling_raises(item, models) ==
    /\ loaded_mesh(item, models) # None
    /\ extents(loaded_mesh(item, models)[1]) = None

\* The files for which scaling raises, whatever the item.
UnscalableFiles ==
    { file \in ModelFiles :
        \A t \in {"Bed"} : scaling_raises([type |-> t], [u \in {t} |-> file]) }

scaled_mesh_is_mesh == "mesh"

\* Line 450: scaled_mesh = mesh.copy() binds scaled_mesh to a new object.
scaled_mesh_is_copy == "copy"

\* Lines 447-473: the item has a mesh: a scaled and moved copy is plotted.
Draw3DMesh ==
    /\ view_pc = "items"
    /\ drawn < Len(furniture_layouts)
    /\ loaded_mesh(drawn_furniture, files.models) # None
    /\ ~scaling_raises(drawn_furniture, files.models)
    /\ LET mesh == loaded_mesh(drawn_furniture, files.models)[1]
           factor == calculate_scale_factor(mesh, drawn_furniture.dimensions)
           scaled_mesh == scaled_mesh_is_copy
           copied == [mesh |-> mesh, copy |-> mesh]
           scaled == [copied EXCEPT ![scaled_mesh] =
                          apply_transform(copied[scaled_mesh], factor)]
           moved == [scaled EXCEPT ![scaled_mesh] =
                         apply_translation(scaled[scaled_mesh],
                                           <<drawn_furniture.position.x,
                                             drawn_furniture.position.y, 0>>)]
       IN  /\ scale_factor' = Some(factor)
           /\ objects' = [mesh |-> Some(moved.mesh), copy |-> Some(moved.copy)]
           /\ ax' = ax \o << Artist("Poly3DCollection", "blue", "", <<>>, <<>>,
                                    moved[scaled_mesh].vertices,
                                    moved[scaled_mesh].den),
                             label_3d(drawn_furniture) >>
    /\ drawn' = drawn + 1
    /\ UNCHANGED <<model, engineVars, appVars, fnVars, mainVars, files, furniture_layouts,
                   figure, figure_before, ax_before, view_pc>>

\* Lines 474-497: no mesh: a box of the item's size stands on the floor.
Draw3DBox ==
    /\ view_pc = "items"
    /\ drawn < Len(furniture_layouts)
    /\ loaded_mesh(drawn_furniture, files.models) = None
    /\ ax' = ax \o << Artist("bar3d", "gray", "",
                             <<drawn_furniture.position.x,
                               drawn_furniture.position.y, 0>>,
                             <<drawn_furniture.dimensions.width,
                               drawn_furniture.dimensions.depth,
                               drawn_furniture.dimensions.height>>, {}, 1),
                      label_3d(drawn_furniture) >>
    /\ objects' = NoObjects
    /\ scale_factor' = None
    /\ drawn' = drawn + 1
    /\ UNCHANGED <<model, engineVars, appVars, fnVars, mainVars, files, furniture_layouts,
                   figure, figure_before, ax_before, view_pc>>

\* Lines 449 and 513-515: the mesh has no vertices: calculate_scale_factor
\* raises and visualize_layouts_3d prints and re-raises.
Draw3DRaises ==
    /\ view_pc = "items"
    /\ drawn < Len(furniture_layouts)
    /\ scaling_raises(drawn_furniture, files.models)
    /\ objects' = [mesh |-> loaded_mesh(drawn_furniture, files.models),
                   copy |-> None]
    /\ view_pc' = "raised"
    /\ UNCHANGED <<model, engineVars, appVars, fnVars, mainVars, files, furniture_layouts,
                   figure, figure_before, ax, ax_before, drawn, scale_factor>>

\* Lines 499-511: the loop is over; limits, labels, canvas.draw().
Visualize3DEnd ==
    /\ view_pc = "items"
    /\ drawn = Len(furniture_layouts)
    /\ view_pc' = "drawn"
    /\ UNCHANGED <<model, engineVars, appVars, fnVars, mainVars, files, furniture_layouts,
                   figure, figure_before, ax, ax_before, drawn, objects,
                   scale_factor>>

\* Items handed to the visualizations: a type with an image, a type drawn
\* as a colored rectangle, and a type outside ASSET_MAPPING.
DrawnItems ==
    { make_item("Bed", 0, 0), make_item("Door", 700, 0), make_item("Lamp", 100, 600) }
DrawnRooms == { [width |-> 1000, length |-> 1000, height |-> 800] }

TypesOf(layout) == {layout[k].type : k \in 1..Len(layout)}

\* The image paths os.path.exists is asked about for the layout (line 367).
ImagePaths(layout) ==
    {ASSET_MAPPING[t] : t \in (TypesOf(layout) \cap DOMAIN ASSET_MAPPING)
                                 \ {"Door", "Window"}}

\* Nothing was drawn yet.
NoDrawing ==
    /\ files = [images |-> {}, models |-> <<>>]
    /\ furniture_layouts = <<>>
    /\ figure = None
    /\ figure_before = None
    /\ ax = <<>>
    /\ ax_before = <<>>
    /\ drawn = 0
    /\ objects = NoObjects
    /\ scale_factor = None
    /\ view_pc = "idle"

(***************************************************************************)
(* RoomLayoutApp                                                           *)
(***************************************************************************)
\* Texts a dimension entry may hold; "" is the content of a new entry.
EntryTexts == {"", "0", "-4", "4", "8"}
\* What the user types into the width, length and height entries.
DimensionInputs == { <<"4", "4", "8">>, <<"0", "4", "8">>,
                     <<"4", "-4", "8">>, <<"4", "4", "0">>, <<"4", "", "8">> }

\* float(text) raises ValueError unless the text is a number.
is_float(text) == text \in {"0", "-4", "4", "8"}

\* float(text), in hundredths.
float(text) ==
    CASE text = "0"  -> 0
      [] text = "-4" -> -400
      [] text = "4"  -> 400
      [] text = "8"  -> 800

furniture_options ==
    [room_type \in {"Bedroom", "Living Room", "Bathroom"} |->
        CASE room_type = "Bedroom"     -> <<"Bed", "Nightstand", "Dresser", "Wardrobe">>
          [] room_type = "Living Room" -> <<"Sofa", "Coffee Table", "TV Stand", "Armchair">>
          [] room_type = "Bathroom"    -> <<"Toilet", "Sink", "Shower", "Bathtub">>]

\* Room types the user picks from the dropdown.
RoomTypeInputs == {"Bedroom"}
\* Entries of the furniture listbox the user selects.
ListboxInputs == {"Nightstand"}

\* str(n) for the entry numbers the model reaches.
str(n) == <<"0", "1", "2", "3", "4", "5", "6", "7", "8", "9", "10">>[n + 1]

\* f"{furniture_type} #{i + 1}": the text of a list entry, as its pieces.
entry_text(furniture_type, n) == <<furniture_type, " #", str(n)>>

\* text.split(" #")[0]: the pieces before the first " #".
split_first(text) ==
    LET hashes == {k \in 1..Len(text) : text[k] = " #"}
        first == IF hashes = {} THEN Len(text) + 1
                 ELSE CHOOSE k \in hashes : \A m \in hashes : k <= m
    IN  SubSeq(text, 1, first - 1)

\* A type name is one piece, so the pieces before " #" are the name itself.
type_of_entry(text) == split_first(text)[1]

RECURSIVE entries_for(_, _)
\* for i in range(quantity): insert(END, f"{furniture_type} #{i + 1}")
entries_for(furniture_type, quantity) ==
    IF quantity <= 0 THEN <<>>
    ELSE Append(entries_for(furniture_type, quantity - 1),
                entry_text(furniture_type, quantity))

remove_at_last(list, k) == SubSeq(list, 1, Len(list) - 1)

remove_at(list, k) == SubSeq(list, 1, k - 1) \o SubSeq(list, k + 1, Len(list))

dimensions_positive_or_zero ==
    /\ float(width_entry) >= 0
    /\ float(length_entry) >= 0
    /\ float(height_entry) >= 0

\* Lines 730-731: width <= 0 or length <= 0 or height <= 0 raises ValueError.
dimensions_positive ==
    /\ float(width_entry) > 0
    /\ float(length_entry) > 0
    /\ float(height_entry) > 0

\* validate_inputs: the message of the warning it shows, or "ok".
validate_inputs ==
    IF room_type_var = "" THEN "Please select a room type."
    ELSE IF ~(is_float(width_entry) /\ is_float(length_entry) /\ is_float(height_entry))
         THEN "Please enter valid room dimensions."
    ELSE IF ~dimensions_positive THEN "Please enter valid room dimensions."
    ELSE "ok"

\* RoomLayoutApp.__init__ when the module-level model is None.
ConstructWithoutModel ==
    /\ app = "unconstructed"
    /\ model = "None"
    /\ app' = "destroyed"
    /\ UNCHANGED <<model, fnVars, viewVars, mainVars,
                   engineVars, uiVars, furniture_layout,
                   replaced, rendered,
                   requests, outcome>>

\* RoomLayoutApp.__init__ with a model: the sections are created.
Construct ==
    /\ app = "unconstructed"
    /\ model # "None"
    /\ app' = "ready"
    /\ room_type_var' = "Select Room Type"
    /\ UNCHANGED <<model, fnVars, viewVars, mainVars,
                   engineVars, furniture_listbox, width_entry,
                   length_entry, height_entry, selected_furniture_list,
                   furniture_layout, replaced, rendered, requests, outcome>>

\* The window exists and the session has requests left.
Idle == app = "ready" /\ requests < MaxRequests

\* The user picks a room type: update_furniture_list.
SelectRoomType ==
    /\ Idle
    /\ \E room_type \in RoomTypeInputs :
          /\ room_type_var' = room_type
          /\ furniture_listbox' = IF room_type \in DOMAIN furniture_options
                                  THEN furniture_options[room_type]
                                  ELSE <<>>
    /\ UNCHANGED <<model, fnVars, viewVars, mainVars,
                   engineVars, app, width_entry, length_entry,
                   height_entry, selected_furniture_list, furniture_layout, replaced,
                   rendered, requests, outcome>>

\* The user empties the text of the (editable) room type combobox.
ClearRoomType ==
    /\ Idle
    /\ room_type_var' = ""
    /\ UNCHANGED <<model, fnVars, viewVars, mainVars,
                   engineVars, app, furniture_listbox, width_entry,
                   length_entry, height_entry, selected_furniture_list,
                   furniture_layout, replaced, rendered, requests, outcome>>

\* The user fills in the three dimension entries.
EditDimensions ==
    /\ Idle
    /\ \E texts \in DimensionInputs :
          /\ width_entry' = texts[1]
          /\ length_entry' = texts[2]
          /\ height_entry' = texts[3]
    /\ UNCHANGED <<model, fnVars, viewVars, mainVars,
                   engineVars, app, room_type_var, furniture_listbox,
                   selected_furniture_list, furniture_layout, replaced, rendered,
                   requests, outcome>>

\* add_furniture_with_quantity: selection is None or an index of
\* furniture_listbox, quantity is None (not an integer) or the integer typed.
add_furniture_with_quantity(selection, quantity) ==
    /\ Idle
    /\ IF selection = None
       THEN UNCHANGED selected_furniture_list   \* warning box, line 670
       ELSE IF quantity = None
       THEN UNCHANGED selected_furniture_list   \* warning box, line 679
       ELSE selected_furniture_list' =
                selected_furniture_list
                    \o entries_for(furniture_listbox[selection[1]], quantity[1])
    /\ UNCHANGED <<model, fnVars, viewVars, mainVars,
                   engineVars, app, room_type_var, furniture_listbox,
                   width_entry, length_entry, height_entry, furniture_layout, replaced,
                   rendered, requests, outcome>>

AddFurniture ==
    \E selection \in {None} \cup {Some(k) : k \in 1..Len(furniture_listbox)},
       quantity \in {None} \cup {Some(q) : q \in 0..MaxEntries} :
          /\ selection # None => furniture_listbox[selection[1]] \in ListboxInputs
          /\ quantity # None =>
                 Len(selected_furniture_list) + quantity[1] <= MaxEntries
          /\ add_furniture_with_quantity(selection, quantity)

\* delete_selected_furniture: selection is None or an index of the list.
delete_selected_furniture(selection) ==
    /\ Idle
    /\ IF selection = None
       THEN UNCHANGED selected_furniture_list   \* warning box, line 685
       ELSE selected_furniture_list' =
                remove_at(selected_furniture_list, selection[1])
    /\ UNCHANGED <<model, fnVars, viewVars, mainVars,
                   engineVars, app, room_type_var, furniture_listbox,
                   width_entry, length_entry, height_entry, furniture_layout, replaced,
                   rendered, requests, outcome>>

DeleteFurniture ==
    \E selection \in {None} \cup {Some(k) : k \in 1..Len(selected_furniture_list)} :
        delete_selected_furniture(selection)

\* add_furniture_with_quantity with an entry of the listbox selected, or
\* none, and a text in the quantity spinbox.  Without a selection the handler
\* returns before it reads the spinbox, so one text stands for all.
AddListed ==
    \E selection \in {None} \cup {Some(k) : k \in 1..Len(furniture_listbox)},
       quantity \in {None} \cup {Some(q) : q \in -1..MaxQuantity} :
          /\ selection = None => quantity = None
          /\ selection # None => furniture_listbox[selection[1]] \in FurnitureInputs
          /\ quantity # None =>
                 Len(selected_furniture_list) + quantity[1] <= MaxListed
          /\ add_furniture_with_quantity(selection, quantity)

\* Lines 701-704: the type names handed to generate_layouts.
list_types ==
    [k \in 1..Len(selected_furniture_list) |->
        type_of_entry(selected_furniture_list[k])]

\* Lines 696-700: the room handed to generate_layouts.
entered_room ==
    [width  |-> float(width_entry),
     length |-> float(length_entry),
     height |-> float(height_entry)]

\* generate_layout, lines 693-708: a request that is turned down with a
\* warning box.
GenerateRejected ==
    /\ Idle
    /\ \/ validate_inputs # "ok"
       \/ validate_inputs = "ok" /\ list_types = <<>>
    /\ requests' = requests + 1
    /\ outcome' = "rejected"
    /\ UNCHANGED <<model, fnVars, viewVars, mainVars, engineVars, app, uiVars,
                   furniture_layout, replaced, rendered>>

\* The type names of the list an assignment to furniture_layout drops.
dropped ==
    IF furniture_layout = None THEN None
    ELSE Some([k \in 1..Len(furniture_layout[1]) |-> furniture_layout[1][k].type])

\* generate_layout, lines 693-714: generate_layouts returns; the list is
\* stored and drawn in 2D and 3D.
GenerateReturns ==
    /\ Idle
    /\ validate_inputs = "ok"
    /\ list_types # <<>>
    /\ \E rows \in IF model = "None" THEN {None}
                   ELSE {Some(r) : r \in PredictionRows(Len(list_types))} :
          \E run \in generate_layouts(entered_room, list_types, rows) :
              /\ layouts' = run.layouts
              /\ printed' = run.printed
              /\ result' = Some(run.layouts)
              /\ furniture_layout' = Some(run.layouts)
              /\ rendered' = Some(run.layouts)
    /\ replaced' = dropped
    /\ room_dimensions' = entered_room
    /\ selected_furniture' = list_types
    /\ requests' = requests + 1
    /\ outcome' = "returned"
    /\ UNCHANGED <<model, fnVars, viewVars, mainVars,
                   pc, caller, predictions, i, attempts, placed,
                   hint_candidate, source, tested, app, uiVars>>

\* visualize_layouts_3d raises for the layout when the model file of one of
\* its items holds a mesh without vertices.
drawing_raises(layout) == layout # <<>> /\ UnscalableFiles # {}

\* generate_layout, lines 693-717: generate_layouts returns and the list is
\* stored and drawn in 2D; visualize_layouts_3d clears its axes and raises,
\* and the handler shows an error box.
GenerateDrawFails ==
    /\ Idle
    /\ validate_inputs = "ok"
    /\ list_types # <<>>
    /\ \E rows \in IF model = "None" THEN {None}
                   ELSE {Some(r) : r \in PredictionRows(Len(list_types))} :
          \E run \in generate_layouts(entered_room, list_types, rows) :
              /\ drawing_raises(run.layouts)
              /\ layouts' = run.layouts
              /\ printed' = run.printed
              /\ result' = Some(run.layouts)
              /\ furniture_layout' = Some(run.layouts)
    /\ rendered' = None
    /\ replaced' = dropped
    /\ room_dimensions' = entered_room
    /\ selected_furniture' = list_types
    /\ requests' = requests + 1
    /\ outcome' = "draw_error"
    /\ UNCHANGED <<model, fnVars, viewVars, mainVars,
                   pc, caller, predictions, i, attempts,
                   placed, hint_candidate, source, tested, app, uiVars>>

\* generate_layout, lines 693-710 and 716-717: model.predict raises inside
\* generate_layouts, which re-raises; the handler shows an error box.
GenerateFails ==
    /\ Idle
    /\ validate_inputs = "ok"
    /\ list_types # <<>>
    /\ model # "None"
    /\ layouts' = <<>>
    /\ printed' = <<>>
    /\ result' = None
    /\ room_dimensions' = entered_room
    /\ selected_furniture' = list_types
    /\ requests' = requests + 1
    /\ outcome' = "error"
    /\ UNCHANGED <<model, fnVars, viewVars, mainVars,
                   pc, caller, predictions, i, attempts, placed,
                   hint_candidate, source, tested, app, uiVars, furniture_layout, replaced,
                   rendered>>

\* The state of a RoomLayoutApp that has not been constructed.
AppUnconstructed ==
    /\ app = "unconstructed"
    /\ room_type_var = ""
    /\ furniture_listbox = <<>>
    /\ width_entry = ""
    /\ length_entry = ""
    /\ height_entry = ""
    /\ selected_furniture_list = <<>>
    /\ furniture_layout = None
    /\ replaced = None
    /\ rendered = None
    /\ requests = 0
    /\ outcome = "none"

(***************************************************************************)
(* MainApplication (src/JessyPage1and2.py): the toolbar, the six pages and *)
(* the dimension entries of RoomTypePage.  Entry texts are inches, the     *)
(* stored room dimensions are metres, here in units of 1e-4 m.             *)
(***************************************************************************)
\* The keys of toolbar_buttons and of pages (lines 70-134).
PageNames ==
    { "Room Type and Boundaries", "Place Families", "Generate Layouts",
      "Validation & Regulations", "Materials & Visualization", "Your Feedback" }

\* value / METERS_TO_INCHES for a value in hundredths of an inch.
to_meters(value) == (value * 1000000) \div 393701

show_page_without_hiding(name) ==
    /\ toolbar_buttons' = [b \in DOMAIN toolbar_buttons |->
                              IF b = name THEN "Active.TButton" ELSE "Toolbar.TButton"]
    /\ pages' = [pages EXCEPT ![name] = "gridded"]
    /\ page_name' = Some(name)

\* show_page, lines 136-153: one button gets the active style, every page is
\* removed from the grid and the named page is put back.
show_page(name) ==
    /\ toolbar_buttons' = [b \in DOMAIN toolbar_buttons |->
                              IF b = name THEN "Active.TButton" ELSE "Toolbar.TButton"]
    /\ pages' = [[q \in DOMAIN pages |-> "removed"] EXCEPT ![name] = "gridded"]
    /\ page_name' = Some(name)

\* A toolbar button is clicked: its command is show_page of its own name.
ClickToolbarButton ==
    /\ page_name # None
    /\ \E name \in DOMAIN toolbar_buttons : show_page(name)
    /\ UNCHANGED <<model, engineVars, appVars, fnVars, viewVars,
                   stored_room_dimensions, length_var, width_var, height_var,
                   validated>>

\* The user types into one of the dimension entries of RoomTypePage.
EditDimensionEntry ==
    /\ page_name # None
    /\ pages["Room Type and Boundaries"] = "gridded"
    /\ \E text \in EntryTexts :
          \/ length_var' = text /\ UNCHANGED <<width_var, height_var>>
          \/ width_var' = text /\ UNCHANGED <<length_var, height_var>>
          \/ height_var' = text /\ UNCHANGED <<length_var, width_var>>
    /\ UNCHANGED <<model, engineVars, appVars, fnVars, viewVars,
                   stored_room_dimensions, toolbar_buttons, pages, page_name,
                   validated>>

\* validate_dimensions, lines 328-340: False when float() fails on an entry
\* or a converted dimension is <= 0.
validate_dimensions ==
    /\ is_float(length_var) /\ is_float(width_var) /\ is_float(height_var)
    /\ to_meters(float(length_var)) > 0
    /\ to_meters(float(width_var)) > 0
    /\ to_meters(float(height_var)) > 0

\* update_room_dimensions, lines 158-163.
update_room_dimensions(length, width, height) ==
    stored_room_dimensions' = [length |-> length, width |-> width, height |-> height]

\* proceed_to_families, lines 342-354.
ProceedToFamilies ==
    /\ page_name # None
    /\ pages["Room Type and Boundaries"] = "gridded"
    /\ validated' = Some(validate_dimensions)
    /\ IF ~validate_dimensions
       THEN UNCHANGED <<stored_room_dimensions, toolbar_buttons, pages, page_name>>
       ELSE /\ update_room_dimensions(to_meters(float(length_var)),
                                      to_meters(float(width_var)),
                                      to_meters(float(height_var)))
            /\ show_page("Place Families")
    /\ UNCHANGED <<model, engineVars, appVars, fnVars, viewVars,
                   length_var, width_var, height_var>>

\* The "Proceed to Generating Layouts" button of FamiliesPage, lines 452-454.
ProceedToLayouts ==
    /\ page_name # None
    /\ pages["Place Families"] = "gridded"
    /\ show_page("Generate Layouts")
    /\ UNCHANGED <<model, engineVars, appVars, fnVars, viewVars,
                   stored_room_dimensions, length_var, width_var, height_var,
                   validated>>

\* No MainApplication exists.
NoMainApplication ==
    /\ stored_room_dimensions = [length |-> 0, width |-> 0, height |-> 0]
    /\ toolbar_buttons = <<>>
    /\ pages = <<>>
    /\ page_name = None
    /\ length_var = ""
    /\ width_var = ""
    /\ height_var = ""
    /\ validated = None

\* No call of generate_layouts is running.
NoEngineCall ==
    /\ pc = "idle"
    /\ room_dimensions = [width |-> 0, length |-> 0, height |-> 0]
    /\ selected_furniture = <<>>
    /\ predictions = None
    /\ layouts = <<>>
    /\ i = 0
    /\ attempts = 0
    /\ placed = FALSE
    /\ hint_candidate = None
    /\ source = "none"
    /\ tested = 0
    /\ printed = <<>>
    /\ result = None

\* No call of check_collision is modelled.
NoCollisionCall ==
    /\ item1 = None
    /\ item2 = None
    /\ collides = None

\* generate_layouts called directly on a room with positive dimensions.
Init ==
    /\ model \in {"None", "loaded"}
    /\ pc = "start"
    /\ caller = "direct"
    /\ room_dimensions \in Rooms
    /\ selected_furniture \in SeqsUpTo(FurnitureInputs, MaxItems) \cup UnlistedLists
    /\ predictions = None
    /\ layouts = <<>>
    /\ i = 0
    /\ attempts = 0
    /\ placed = FALSE
    /\ hint_candidate = None
    /\ source = "none"
    /\ tested = 0
    /\ printed = <<>>
    /\ result = None
    /\ AppUnconstructed
    /\ NoMainApplication
    /\ NoCollisionCall
    /\ NoDrawing

Next == EngineStep

Spec == Init /\ [][Next]_vars

\* generate_layouts is straight-line synchronous code: a call that has a next
\* step takes it.
FairSpec == Spec /\ WF_vars(Next)

\* The module is loaded, with or without a model, and no call is running.
AppInit ==
    /\ model \in {"None", "loaded"}
    /\ pc = "idle"
    /\ caller = "app"
    /\ room_dimensions = [width |-> 0, length |-> 0, height |-> 0]
    /\ selected_furniture = <<>>
    /\ predictions = None
    /\ layouts = <<>>
    /\ i = 0
    /\ attempts = 0
    /\ placed = FALSE
    /\ hint_candidate = None
    /\ source = "none"
    /\ tested = 0
    /\ printed = <<>>
    /\ result = None
    /\ AppUnconstructed
    /\ NoMainApplication
    /\ NoCollisionCall
    /\ NoDrawing

AppNext ==
    \/ ConstructWithoutModel
    \/ Construct
    \/ SelectRoomType
    \/ ClearRoomType
    \/ EditDimensions
    \/ AddFurniture
    \/ DeleteFurniture
    \/ GenerateRejected
    \/ GenerateReturns
    \/ GenerateDrawFails
    \/ GenerateFails

AppSpec == AppInit /\ [][AppNext]_vars

(***************************************************************************)
(* check_collision called on its own                                       *)
(***************************************************************************)
\* Rectangles handed to check_collision: 2 x 2 and 3 x 0.1 footprints with
\* their corner on a grid of whole feet.
CollisionInputs ==
    { make_item(t, 100 * x, 100 * y) :
        t \in {"Nightstand", "Door"}, x \in 0..GridSize, y \in 0..GridSize }

CollisionInit ==
    /\ model \in {"None", "loaded"}
    /\ caller = "direct"
    /\ NoEngineCall
    /\ AppUnconstructed
    /\ NoMainApplication
    /\ NoDrawing
    /\ item1 \in CollisionInputs
    /\ item2 \in CollisionInputs
    /\ collides = None

\* The call check_collision(item1, item2): the function reads the two
\* dictionaries and returns a boolean.
CheckCollision ==
    /\ collides = None
    /\ collides' = Some(check_collision(item1, item2))
    /\ UNCHANGED <<model, engineVars, appVars, viewVars, mainVars, item1, item2>>

CollisionNext == CheckCollision

CollisionSpec == CollisionInit /\ [][CollisionNext]_vars

(***************************************************************************)
(* The visualizations called on their own                                 *)
(***************************************************************************)
\* The visualizations called on a list of items, with the asset files of
\* the types in the list in any state.
ViewInit ==
    /\ model = "loaded"
    /\ caller = "direct"
    /\ pc = "idle"
    /\ room_dimensions \in DrawnRooms
    /\ selected_furniture = <<>>
    /\ predictions = None
    /\ layouts = <<>>
    /\ i = 0
    /\ attempts = 0
    /\ placed = FALSE
    /\ hint_candidate = None
    /\ source = "none"
    /\ tested = 0
    /\ printed = <<>>
    /\ result = None
    /\ AppUnconstructed
    /\ NoMainApplication
    /\ NoCollisionCall
    /\ furniture_layouts \in SeqsUpTo(DrawnItems, MaxDrawn)
    /\ files \in [images : SUBSET ImagePaths(furniture_layouts),
                  models : [TypesOf(furniture_layouts) -> ModelFiles]]
    /\ figure = None
    /\ figure_before = None
    /\ ax = <<>>
    /\ ax_before = <<>>
    /\ drawn = 0
    /\ objects = NoObjects
    /\ scale_factor = None
    /\ view_pc = "idle"

ViewNext ==
    \/ Visualize2D
    \/ Visualize3DStart
    \/ Draw3DMesh
    \/ Draw3DBox
    \/ Draw3DRaises
    \/ Visualize3DEnd

ViewSpec == ViewInit /\ [][ViewNext]_vars

(***************************************************************************)
(* RoomLayoutApp up to its first generation request, with two types to     *)
(* add and quantities up to MaxQuantity                                    *)
(***************************************************************************)
ListNext ==
    \/ requests = 0 /\ ConstructWithoutModel
    \/ requests = 0 /\ Construct
    \/ requests = 0 /\ SelectRoomType
    \/ requests = 0 /\ ClearRoomType
    \/ requests = 0 /\ EditDimensions
    \/ requests = 0 /\ AddListed
    \/ requests = 0 /\ DeleteFurniture
    \/ requests = 0 /\ GenerateRejected
    \/ requests = 0 /\ GenerateReturns
    \/ requests = 0 /\ GenerateDrawFails
    \/ requests = 0 /\ GenerateFails

ListSpec == AppInit /\ [][ListNext]_vars

(***************************************************************************)
(* MainApplication on its own                                              *)
(***************************************************************************)
\* MainApplication.__init__, lines 15-56: the dimensions are 0, the entries
\* of RoomTypePage hold "0", all pages are gridded by setup_pages and
\* show_page("Room Type and Boundaries") has run.
MainInit ==
    /\ model = "None"
    /\ caller = "direct"
    /\ NoEngineCall
    /\ AppUnconstructed
    /\ NoCollisionCall
    /\ NoDrawing
    /\ stored_room_dimensions = [length |-> 0, width |-> 0, height |-> 0]
    /\ toolbar_buttons = [b \in PageNames |->
                             IF b = "Room Type and Boundaries"
                             THEN "Active.TButton" ELSE "Toolbar.TButton"]
    /\ pages = [q \in PageNames |->
                   IF q = "Room Type and Boundaries" THEN "gridded" ELSE "removed"]
    /\ page_name = Some("Room Type and Boundaries")
    /\ length_var = "0"
    /\ width_var = "0"
    /\ height_var = "0"
    /\ validated = None

MainNext ==
    \/ ClickToolbarButton
    \/ EditDimensionEntry
    \/ ProceedToFamilies
    \/ ProceedToLayouts

MainSpec == MainInit /\ [][MainNext]_vars

(***************************************************************************)
(* Properties of generate_layouts                                          *)
(***************************************************************************)
\* How often the type name t occurs in a sequence of names.
Count(names, t) == Cardinality({k \in 1..Len(names) : names[k] = t})

TypeNames(items) == [k \in 1..Len(items) |-> items[k].type]

\* The footprints of two items share a region of non-zero area.
Overlaps(a, b) ==
    /\ Max(a.position.x, b.position.x)
         < Min(a.position.x + a.dimensions.width, b.position.x + b.dimensions.width)
    /\ Max(a.position.y, b.position.y)
         < Min(a.position.y + a.dimensions.depth, b.position.y + b.dimensions.depth)

InsideRoom(item) ==
    /\ 0 <= item.position.x
    /\ item.position.x + item.dimensions.width <= room_width
    /\ 0 <= item.position.y
    /\ item.position.y + item.dimensions.depth <= room_length

FitsRoom(item) ==
    /\ item.dimensions.width <= room_width
    /\ item.dimensions.depth <= room_length

\* C1: in every state of generate_layouts, and so in the layout it returns, no
\* two distinct items of the layout have overlapping footprints.
C1_NoOverlap ==
    \A a, b \in 1..Len(layouts) : a # b => ~Overlaps(layouts[a], layouts[b])

\* A second item was committed after its first candidate collided.
C1_Witness ==
    /\ pc = "done"
    /\ Len(layouts) = 2
    /\ tested > 1

\* C2: every item of the returned layout lies inside the room, also when the
\* item is wider or deeper than the room.
C2_ReturnedItemsInsideRoom ==
    pc = "done" => \A k \in 1..Len(layouts) : InsideRoom(layouts[k])

\* C3: an item wider than room_width or deeper than room_length is never part
\* of the returned layout (it ends unplaced), and no exception is raised for it.
C3_OversizeItemUnplaced ==
    pc = "done" => \A k \in 1..Len(layouts) : FitsRoom(layouts[k])

\* C4: when the budget of an item is used up by colliding candidates, the item
\* is not added, exactly one warning is printed for it, the placed items stay
\* as they are, and the loop moves on to the next item, whose attempt counter
\* starts at 0.
C4_ExhaustedBudget ==
    /\ [][(pc = "while" /\ attempts' = attempts + 1) => layouts' = layouts]_vars
    /\ [][(pc = "while" /\ attempts = max_attempts /\ pc' # "while")
             => /\ ~placed
                /\ layouts' = layouts
                /\ printed' = Append(printed, furniture)
                /\ i' = i + 1
                /\ pc' = "for"]_vars
    /\ [][(pc = "for" /\ pc' = "while")
             => attempts' = 0 /\ layouts' = layouts /\ printed' = printed]_vars

\* The second item of three was reported unplaced after 50 colliding
\* candidates, and the third item is at its first attempt.
C4_Witness ==
    /\ pc = "while"
    /\ i = 2
    /\ Len(layouts) = 1
    /\ printed = <<selected_furniture[2]>>
    /\ attempts = 0
    /\ tested = 0

C8_PredictFailureAbsorbed == pc # "raised"

\* C9: the candidate derived from a hint has its whole footprint in the room.
C9_HintCandidateInsideRoom ==
    hint_candidate # None => InsideRoom(hint_candidate[1])

\* The catalog of lines 226-239, as (width, depth, height) in feet * 100.
Catalog ==
    { <<"Bed", 667, 500, 250>>,        <<"Sofa", 600, 300, 300>>,
      <<"TV Stand", 500, 150, 200>>,   <<"Coffee Table", 400, 200, 150>>,
      <<"Nightstand", 200, 200, 200>>, <<"Dresser", 400, 200, 400>>,
      <<"Wardrobe", 400, 200, 700>>,   <<"Armchair", 300, 300, 300>>,
      <<"Toilet", 250, 200, 250>>,     <<"Sink", 200, 150, 250>>,
      <<"Shower", 300, 300, 700>>,     <<"Bathtub", 500, 250, 200>>,
      <<"Door", 300, 10, 700>>,        <<"Window", 400, 10, 400>> }

\* The items a call has built so far: the committed ones and the hint candidate.
ItemsBuilt ==
    {layouts[k] : k \in 1..Len(layouts)}
        \cup {hint_candidate[k] : k \in 1..Len(hint_candidate)}

\* C11: get_furniture_dimensions returns the catalog's width, depth and height
\* for each of the 14 known types and width = depth = height = 2 for every
\* other name; every item generate_layouts builds carries these dimensions,
\* and a call leaves by an exception only when model.predict fails, whatever
\* names the list holds: with an unknown name it still runs to its return.
C11_UnknownTypeDefault ==
    /\ [](/\ Cardinality(Catalog) = 14
          /\ \A c \in Catalog :
                 get_furniture_dimensions(c[1]) = Dims(c[2], c[3], c[4])
          /\ \A t \in UnlistedInputs :
                 /\ \A c \in Catalog : c[1] # t
                 /\ get_furniture_dimensions(t) = Dims(200, 200, 200))
    /\ [](\A item \in ItemsBuilt :
             /\ \A c \in Catalog :
                    c[1] = item.type => item.dimensions = Dims(c[2], c[3], c[4])
             /\ item.type \in UnlistedInputs
                    => item.dimensions = Dims(200, 200, 200))
    /\ [][pc' = "raised" => pc = "start" /\ model = "loaded"]_vars
    /\ [](pc \in {"for", "while"} => ENABLED Next)
    /\ [](pc = "done" => Len(layouts) + Len(printed) = Len(selected_furniture))

\* A call returned a layout whose second item has a name outside the catalog.
C11_Witness ==
    /\ pc = "done"
    /\ Len(layouts) = 2
    /\ layouts[2].type \in UnlistedInputs
    /\ layouts[2].dimensions = Dims(200, 200, 200)

\* The footprints meet along an edge or at a corner.
Touching(a, b) ==
    \/ a.position.x + a.dimensions.width = b.position.x
    \/ b.position.x + b.dimensions.width = a.position.x
    \/ a.position.y + a.dimensions.depth = b.position.y
    \/ b.position.y + b.dimensions.depth = a.position.y

\* C12: check_collision(a, b) is true exactly when the projections of the two
\* footprints intersect with non-zero length on both axes; rectangles that
\* only touch along an edge or at a corner do not collide; the call changes
\* neither item.
C12_CollisionIffOverlap ==
    /\ [](collides # None
             => /\ collides[1] <=> Overlaps(item1, item2)
                /\ Touching(item1, item2) => ~collides[1])
    /\ [][item1' = item1 /\ item2' = item2]_vars

\* Two rectangles share an edge of positive length and the call returned False.
C12_Witness ==
    /\ collides = Some(FALSE)
    /\ item1.position.x + item1.dimensions.width = item2.position.x
    /\ item1.position.y = item2.position.y

\* Item j of the list has the footprint of the item the loop is at, and the
\* model gave both the same hint.
SameFootprintAndHint(j) ==
    /\ get_furniture_dimensions(selected_furniture[j]).width
           = get_furniture_dimensions(furniture).width
    /\ get_furniture_dimensions(selected_furniture[j]).depth
           = get_furniture_dimensions(furniture).depth
    /\ predictions[1][j] = predictions[1][i + 1]

\* The loop is at an item that follows an item of the same footprint and hint.
SecondOfTwins ==
    /\ pc = "while"
    /\ predictions # None
    /\ \E j \in 1..i : SameFootprintAndHint(j)

\* C20: when an item has the footprint and the hint of an earlier item, its
\* attempt 0 is the hint candidate and is rejected as a collision (with the
\* first item of the list when that is the earlier item): the layout stays
\* as it is and attempts becomes 1.  The item is then committed, if at all,
\* at a randomly drawn candidate of one of the attempts 1..49, and the
\* committed footprint overlaps no item placed before.
C20_TwinResolvedByRandomRetry ==
    /\ [][(SecondOfTwins /\ tested = 0 /\ tested' = 1)
             => /\ source' = "hint"
                /\ hint_candidate' # None
                /\ has_collision(hint_candidate'[1], layouts)
                /\ SameFootprintAndHint(1)
                       => /\ layouts # <<>>
                          /\ check_collision(hint_candidate'[1], layouts[1])
                /\ layouts' = layouts
                /\ ~placed'
                /\ attempts' = 1]_vars
    /\ [][(SecondOfTwins /\ layouts' # layouts)
             => /\ source' = "random"
                /\ attempts \in 1..49
                /\ layouts' = Append(layouts, layouts'[Len(layouts')])
                /\ layouts'[Len(layouts')] # hint_candidate[1]
                /\ \A k \in 1..Len(layouts) :
                       ~Overlaps(layouts'[Len(layouts')], layouts[k])]_vars

\* A call on two items of the same footprint and hint returned both: the
\* first at the hint position, the second elsewhere after a random retry.
C20_Witness ==
    /\ pc = "done"
    /\ predictions # None
    /\ Len(selected_furniture) = 2
    /\ get_furniture_dimensions(selected_furniture[1])
           = get_furniture_dimensions(selected_furniture[2])
    /\ predictions[1][1] = predictions[1][2]
    /\ Len(layouts) = 2
    /\ hint_candidate # None
    /\ hint_candidate[1].position = layouts[1].position
    /\ layouts[2].position # layouts[1].position
    /\ source = "random"
    /\ tested >= 2

\* Steps a call can still take, counted from above: 54 per item not yet
\* begun, and within an item one per attempt left, one for the commit and
\* one for leaving the loop.
C10_StepsLeft ==
    LET items_left == Len(selected_furniture) - i
    IN  CASE pc = "start" -> items_left * 54 + 3
          [] pc = "for"   -> items_left * 54 + 2
          [] pc = "while" -> (items_left - 1) * 54 + 3 + (50 - attempts)
                                + (IF placed THEN 0 ELSE 1)
          [] OTHER        -> 0

\* C10: generate_layouts terminates: every step of a call lowers a natural
\* number, and a call that has not returned or raised has a next step; it
\* tests at most 50 candidates per item, starts every item at attempt 0, and
\* returns only once every item was processed.
C10_Terminates ==
    /\ [](tested <= 50 /\ attempts <= 50 /\ C10_StepsLeft >= 0)
    /\ [][C10_StepsLeft' < C10_StepsLeft]_vars
    /\ [](pc \notin {"done", "raised"} => ENABLED Next)
    /\ [][(pc = "for" /\ pc' = "while") => (attempts' = 0 /\ tested' = 0)]_vars
    /\ [](pc = "done" => i = Len(selected_furniture))

\* A call returned after the whole budget of its last item was spent.
C10_Witness ==
    /\ pc = "done"
    /\ tested = 50

\* The call is for one item whose footprint fits in the room, with no hints.
SingleFittingItem ==
    /\ Len(selected_furniture) = 1
    /\ get_furniture_dimensions(selected_furniture[1]).width <= room_width
    /\ get_furniture_dimensions(selected_furniture[1]).depth <= room_length
    /\ model = "None"

\* C21: a call for a single item whose footprint fits in the room, with no
\* hints, returns a layout of exactly one item, the requested one, lying
\* fully inside the room; the item is committed at its first candidate
\* (attempt 0, drawn at random), and no warning is printed.
C21_SingleFittingItemPlaced ==
    /\ [](SingleFittingItem => pc # "raised" /\ Len(layouts) <= 1 /\ tested <= 1)
    /\ []((SingleFittingItem /\ pc = "done")
             => /\ predictions = None
                /\ result = Some(layouts)
                /\ Len(layouts) = 1
                /\ layouts[1].type = selected_furniture[1]
                /\ layouts[1].dimensions
                       = get_furniture_dimensions(selected_furniture[1])
                /\ InsideRoom(layouts[1])
                /\ tested = 1
                /\ attempts = 0
                /\ source = "random"
                /\ printed = <<>>)
    /\ [][(SingleFittingItem /\ layouts' # layouts /\ pc = "while")
             => layouts = <<>> /\ attempts = 0 /\ tested = 0]_vars

\* A call for one Bed in the 7 x 7 room returned it, placed off the origin.
C21_Witness ==
    /\ pc = "done"
    /\ model = "None"
    /\ selected_furniture = <<"Bed">>
    /\ room_width = 700
    /\ Len(layouts) = 1
    /\ layouts[1].position.y > 0
    /\ tested = 1

\* The call is for two items of one type whose footprint does not fit in
\* the room.
TwoOversizeItems ==
    /\ Len(selected_furniture) = 2
    /\ selected_furniture[1] = selected_furniture[2]
    /\ \/ get_furniture_dimensions(selected_furniture[1]).width > room_width
       \/ get_furniture_dimensions(selected_furniture[1]).depth > room_length

CandidateStep == pc = "while" /\ tested' = tested + 1

\* C23: a candidate is built from the item's hint exactly when the item is at
\* attempt 0 and predictions exist, which happens at most once per item, as
\* its first candidate; every other candidate (each one after the hint
\* candidate collided, and attempt 0 when there are no predictions) is drawn
\* by random sampling, and the hint candidate of the item stays what it was.
C23_HintOnlyOnFirstAttempt ==
    /\ [][CandidateStep
             => /\ source' \in {"hint", "random"}
                /\ source' = "hint" <=> (attempts = 0 /\ predictions # None)]_vars
    /\ [][(CandidateStep /\ source' = "hint")
             => /\ tested = 0
                /\ hint_candidate = None
                /\ hint_candidate'
                       = Some(hint_item(room_dimensions, furniture,
                                        predictions[1][i + 1]))
                /\ layouts' # layouts => layouts' = Append(layouts, hint_candidate'[1])
                /\ layouts' = layouts => attempts' = 1]_vars
    /\ [][(CandidateStep /\ (tested >= 1 \/ predictions = None))
             => /\ source' = "random"
                /\ hint_candidate' = hint_candidate
                /\ layouts' # layouts
                       => \E item \in random_items(room_dimensions, furniture) :
                              layouts' = Append(layouts, item)]_vars
    /\ [](pc = "while" /\ tested >= 1 /\ ~placed => attempts = tested)
    /\ [](predictions = None => hint_candidate = None)

\* The hint candidate of a second item collided and the item is at its third
\* candidate, drawn at random like the second.
C23_Witness ==
    /\ pc = "while"
    /\ predictions # None
    /\ i = 1
    /\ hint_candidate # None
    /\ has_collision(hint_candidate[1], layouts)
    /\ source = "random"
    /\ tested = 3
    /\ attempts = 3

RECURSIVE IsSubsequence(_, _)
\* s is t with some of its entries left out.
IsSubsequence(s, t) ==
    IF s = <<>> THEN TRUE
    ELSE IF t = <<>> THEN FALSE
    ELSE IF Head(s) = Head(t) THEN IsSubsequence(Tail(s), Tail(t))
    ELSE IsSubsequence(s, Tail(t))

\* The items of the list the for loop has taken up so far.
ItemsBegun == SubSeq(selected_furniture, 1, IF pc = "while" THEN i + 1 ELSE i)

\* C24: the for loop takes the items in input order, one after the other,
\* and the layout only grows at its end: a step leaves the layout as it is or
\* appends one item of the type the loop is at, so a committed item keeps
\* its place in the list, its position and its dimensions.  The types of the
\* layout, and so of the returned list, are the input list with the unplaced
\* items left out, in input order, one entry per placed occurrence.
C24_InputOrderAppendOnly ==
    /\ [][/\ i' \in {i, i + 1}
          /\ selected_furniture' = selected_furniture
          /\ \/ layouts' = layouts
             \/ /\ pc = "while"
                /\ Len(layouts') = Len(layouts) + 1
                /\ SubSeq(layouts', 1, Len(layouts)) = layouts
                /\ layouts'[Len(layouts')].type = furniture
                /\ placed' /\ ~placed]_vars
    /\ [](/\ IsSubsequence(TypeNames(layouts), ItemsBegun)
          /\ IsSubsequence(printed, ItemsBegun)
          /\ \A t \in FurnitureInputs \cup UnlistedInputs :
                 Count(TypeNames(layouts), t) + Count(printed, t)
                     = Count(ItemsBegun, t)
                           - (IF pc = "while" /\ ~placed /\ furniture = t
                              THEN 1 ELSE 0))
    /\ [](pc = "done"
             => /\ result = Some(layouts)
                /\ IsSubsequence(TypeNames(result[1]), selected_furniture))

\* A call for three items returned the first and the third, which are of the
\* same type, in that order; the second was not placed.
C24_Witness ==
    /\ pc = "done"
    /\ Len(selected_furniture) = 3
    /\ selected_furniture[1] = selected_furniture[3]
    /\ selected_furniture[2] # selected_furniture[1]
    /\ printed = <<selected_furniture[2]>>
    /\ Len(layouts) = 2
    /\ layouts[1].type = selected_furniture[1]
    /\ layouts[2].type = selected_furniture[3]
    /\ layouts[1].position # layouts[2].position

\* Every result of the stepwise run is a result of the call taken as a whole.
StepsMatchCall ==
    pc = "done"
        => [layouts |-> layouts, printed |-> printed]
               \in generate_layouts(room_dimensions, selected_furniture, predictions)

(***************************************************************************)
(* Properties of the visualizations                                        *)
(***************************************************************************)
\* The item of the last completed loop iteration of visualize_layouts_3d.
LastDrawn == furniture_layouts[drawn]

\* The mesh load_3d_model returned for that item.
SourceMesh == loaded_mesh(LastDrawn, files.models)[1]

TargetDims ==
    <<LastDrawn.dimensions.width, LastDrawn.dimensions.depth,
      LastDrawn.dimensions.height>>

\* The last loop iteration scaled and placed a mesh.
MeshDrawn == scale_factor # None /\ objects.copy # None

\* C13: the scale factor is the minimum of the three ratios target / extent:
\* it is one of the ratios and none of them is smaller; so for a mesh with
\* positive extents the scaled extent is <= the target dimension on every
\* axis and equals it on at least one axis.
C13_ScaleIsMinimumRatio ==
    (MeshDrawn /\ \A axis \in 1..3 : extents(SourceMesh)[1][axis] > 0)
        => LET current_dims == extents(SourceMesh)[1]
               factor == scale_factor[1]
               scaled == extents(objects.copy[1])[1]
               den == objects.copy[1].den
           IN  /\ \E axis \in 1..3 :
                      factor.num * current_dims[axis] = TargetDims[axis] * factor.den
               /\ \A axis \in 1..3 :
                      factor.num * current_dims[axis] <= TargetDims[axis] * factor.den
               /\ \A axis \in 1..3 : scaled[axis] <= TargetDims[axis] * den
               /\ \E axis \in 1..3 : scaled[axis] = TargetDims[axis] * den

\* A mesh was scaled to its target on one axis and stays below it on another.
C13_Witness ==
    /\ MeshDrawn
    /\ \E axis \in 1..3 :
           extents(objects.copy[1])[1][axis] = TargetDims[axis] * objects.copy[1].den
    /\ \E axis \in 1..3 :
           extents(objects.copy[1])[1][axis] < TargetDims[axis] * objects.copy[1].den

\* C14: after scaling and translation the minimum corner of the mesh's
\* footprint is at the item's (x, y) and its lowest point is at z = 0, for
\* every source mesh.
C14_MeshCornerAtItemPosition ==
    MeshDrawn
        => LET den == objects.copy[1].den
           IN  bounds_min(objects.copy[1])[1]
                   = [axis \in 1..3 |->
                         <<LastDrawn.position.x * den,
                           LastDrawn.position.y * den, 0>>[axis]]

\* C15: scaling and positioning leave the source mesh as load_3d_model
\* returned it: same vertices, same extents; the transformed mesh is another
\* object.
C15_SourceMeshNotMutated ==
    MeshDrawn
        => /\ objects.mesh = Some(SourceMesh)
           /\ extents(objects.mesh[1]) = extents(SourceMesh)

\* A mesh was scaled and moved, and the plotted copy differs from its source.
C15_Witness ==
    /\ MeshDrawn
    /\ objects.copy # objects.mesh
    /\ extents(objects.copy[1]) # extents(objects.mesh[1])

\* C16: the 3D call never raises for the lack of a usable mesh, and a call
\* that ended has drawn one solid per item after the frame of the room: the
\* scaled mesh when the item's file holds a mesh, and otherwise a box of the
\* item's width, depth and height with its corner at (x, y, 0).
C16_OneSolidPerItem ==
    /\ view_pc # "raised"
    /\ view_pc = "drawn"
          => /\ Len(ax) = 6 + 2 * Len(furniture_layouts)
             /\ \A k \in 1..Len(furniture_layouts) :
                    LET item == furniture_layouts[k]
                        solid == ax[6 + 2 * k - 1]
                    IN  IF files.models[item.type].content = "mesh"
                        THEN solid.artist = "Poly3DCollection"
                        ELSE /\ solid.artist = "bar3d"
                             /\ solid.at = <<item.position.x, item.position.y, 0>>
                             /\ solid.size = <<item.dimensions.width,
                                               item.dimensions.depth,
                                               item.dimensions.height>>

\* C17: the 2D call draws, for every item of the layout, one shape (rectangle
\* or image) over exactly the item's footprint and one label at the middle
\* of the footprint, whatever the item's type.
C17_ShapeAndLabelPerItem ==
    figure # None
        => LET artists == figure[1]
               shapes == {j \in 2..Len(artists) :
                             artists[j].artist \in {"Rectangle", "AxesImage"}}
               labels == {j \in 2..Len(artists) : artists[j].artist = "Text"}
           IN  /\ Cardinality(shapes) = Len(furniture_layouts)
               /\ Cardinality(labels) = Len(furniture_layouts)
               /\ \A k \in 1..Len(furniture_layouts) :
                      LET item == furniture_layouts[k]
                      IN  /\ \E j \in shapes :
                                 /\ artists[j].at = <<item.position.x, item.position.y>>
                                 /\ artists[j].size = <<item.dimensions.width,
                                                        item.dimensions.depth>>
                          /\ \E j \in labels :
                                 /\ artists[j].text = item.type
                                 /\ artists[j].den = 2
                                 /\ artists[j].at =
                                        <<2 * item.position.x + item.dimensions.width,
                                          2 * item.position.y + item.dimensions.depth>>

\* C18: a second call of visualize_layouts or visualize_layouts_3d on the
\* same layout leaves the same artists as the first, and no step of either
\* call changes the layout.
C18_ProjectionIdempotent ==
    /\ [](figure_before # None => figure = figure_before)
    /\ []((view_pc \in {"drawn", "raised"} /\ ax_before # <<>>) => ax = ax_before)
    /\ [][furniture_layouts' = furniture_layouts]_vars

\* Both visualizations were called a second time on a layout of two items.
C18_Witness ==
    /\ view_pc = "drawn"
    /\ ax_before # <<>>
    /\ figure_before # None
    /\ Len(furniture_layouts) = 2

(***************************************************************************)
(* Properties of RoomLayoutApp                                             *)
(***************************************************************************)
\* A click on "Generate Layout".
RequestStep == requests' = requests + 1

EntriesOf == {width_entry, length_entry, height_entry}

\* Some dimension entry holds a number that is zero or negative.
SomeDimensionNonPositive == EntriesOf \cap {"0", "-4"} # {}

\* Every dimension entry holds a number above zero.
AllDimensionsPositive == EntriesOf \subseteq {"4", "8"}

\* C6 (as stated): a request fails with an input-validation error exactly when
\* a room dimension is non-positive or the furniture list is empty; then no
\* layout is produced, stored or rendered; every other request returns a layout.
C6_RejectedOnlyForNonPositiveOrEmpty ==
    [][RequestStep =>
         /\ (outcome' = "rejected")
               <=> (SomeDimensionNonPositive \/ selected_furniture_list = <<>>)
         /\ outcome' = "rejected"
               => UNCHANGED <<furniture_layout, rendered, engineVars>>
         /\ outcome' # "rejected"
               => outcome' = "returned" /\ furniture_layout' = result']_vars

\* C6 (amended): a request is turned down by input validation exactly when the
\* room type text is empty, a dimension entry is not a number or is not above
\* zero, or the furniture list is empty; then generate_layouts is not called
\* and the stored layout and the drawing stay as they are.  Every other
\* request calls generate_layouts and stores and draws the list it returns;
\* when the call raises, the stored layout stays as it is too, and when a
\* visualization raises, the returned list is stored all the same and no
\* layout is shown on both canvases.
C6_ValidationOutcome ==
    [][RequestStep =>
         /\ (outcome' = "rejected")
               <=> \/ room_type_var = ""
                   \/ ~AllDimensionsPositive
                   \/ selected_furniture_list = <<>>
         /\ outcome' = "rejected"
               => UNCHANGED <<furniture_layout, rendered, engineVars>>
         /\ outcome' = "error"
               => result' = None /\ UNCHANGED <<furniture_layout, rendered>>
         /\ outcome' = "returned"
               => /\ result' # None
                  /\ furniture_layout' = result'
                  /\ rendered' = result'
         /\ outcome' = "draw_error"
               => /\ result' # None
                  /\ furniture_layout' = result'
                  /\ rendered' = None
         /\ outcome' \in {"rejected", "error", "returned", "draw_error"}]_vars

\* A request was turned down while the layout of an earlier request is stored.
C6_Witness ==
    /\ outcome = "rejected"
    /\ requests = 2
    /\ furniture_layout # None

\* C7: with no model loaded the application still serves generation requests:
\* once constructed, its window is there to take them.
C7_GenerationOfferedWithoutModel ==
    (model = "None" /\ app # "unconstructed") => app = "ready"

\* C19: every request that passes validation rebuilds the layout from an
\* empty one: the list stored in furniture_layout is the list the call
\* returned, it replaces the list of the earlier request, its items and the
\* warnings of the call are exactly the items requested now, and the first
\* requested item is always in it, whatever an earlier call had placed.
C19_LayoutRebuiltPerRequest ==
    [][(RequestStep /\ outcome' \in {"returned", "draw_error"})
         => LET stored == furniture_layout'[1]
            IN  /\ furniture_layout' = result'
                /\ replaced' = dropped
                /\ \A t \in FurnitureInputs :
                       Count(TypeNames(stored), t) + Count(printed', t)
                           = Count(list_types, t)
                /\ Len(stored) + Len(printed') = Len(list_types)
                /\ Len(stored) >= 1
                /\ stored[1].type = list_types[1]
                /\ \A a, b \in 1..Len(stored) :
                       a # b => ~Overlaps(stored[a], stored[b])]_vars

\* A second request returned a layout that replaced the layout of the first
\* and holds the items of the second request alone.
C19_Witness ==
    /\ outcome = "returned"
    /\ requests = 2
    /\ replaced # None
    /\ replaced[1] # <<>>
    /\ furniture_layout # None
    /\ Len(furniture_layout[1]) = Len(selected_furniture)

(***************************************************************************)
(* Properties of MainApplication                                           *)
(***************************************************************************)
\* C25: whenever the "Place Families" or the "Generate Layouts" page is the
\* visible page, the stored room dimensions are all above zero.
C25_LayoutPagesNeedPositiveDimensions ==
    (pages # <<>>
       /\ (pages["Place Families"] = "gridded" \/ pages["Generate Layouts"] = "gridded"))
        => /\ stored_room_dimensions.length > 0
           /\ stored_room_dimensions.width > 0
           /\ stored_room_dimensions.height > 0

\* The pages on the grid, and the buttons with the active style.
VisiblePages == {q \in DOMAIN pages : pages[q] = "gridded"}
ActiveButtons == {b \in DOMAIN toolbar_buttons : toolbar_buttons[b] = "Active.TButton"}

\* C26: after every call show_page(p), at construction, from a toolbar button
\* or from a Proceed button, p is one of the six page names, p is the one
\* visible page and its button is the one button with the active style.
C26_OnePageOneActiveButton ==
    /\ [](page_name # None
            => /\ page_name[1] \in PageNames
               /\ DOMAIN pages = PageNames
               /\ DOMAIN toolbar_buttons = PageNames
               /\ VisiblePages = {page_name[1]}
               /\ ActiveButtons = {page_name[1]}
               /\ \A b \in PageNames \ {page_name[1]} :
                      toolbar_buttons[b] = "Toolbar.TButton")
    /\ [][(pages' # pages \/ toolbar_buttons' # toolbar_buttons)
             => page_name' # page_name]_vars

\* After Proceed with valid entries and a click on the button of another
\* page, that page has replaced "Place Families".
C26_Witness ==
    /\ page_name = Some("Your Feedback")
    /\ validated = Some(TRUE)
    /\ pages["Your Feedback"] = "gridded"
    /\ pages["Place Families"] = "removed"
    /\ toolbar_buttons["Your Feedback"] = "Active.TButton"

(***************************************************************************)
(* Properties of the selected-furniture list                               *)
(***************************************************************************)
\* C27: a step of add_furniture_with_quantity with the type at index s of
\* the furniture listbox selected and the quantity q appends q entries to
\* the selected list (none when q is below 1), the k-th of them the type
\* followed by " #k", and leaves the entries before them alone; a step of
\* delete_selected_furniture with index k selected removes the entry at k
\* and no other.  The type names computed from the list for generate_layouts
\* change along: q times the selected type is appended, the name at k is
\* removed.  These names are one per entry, in list order, each the first
\* piece of its entry, and they are the list generate_layouts is called with.
C27_ListEntriesAndTypes ==
    /\ [][LET before == selected_furniture_list
              after == selected_furniture_list'
          IN  /\ \A s \in 1..Len(furniture_listbox), q \in -1..MaxQuantity :
                     add_furniture_with_quantity(Some(s), Some(q))
                     => LET n == Max(q, 0)
                            type == furniture_listbox[s]
                        IN  /\ Len(after) = Len(before) + n
                            /\ SubSeq(after, 1, Len(before)) = before
                            /\ \A k \in 1..n :
                                   after[Len(before) + k] = <<type, " #", str(k)>>
                            /\ list_types' = list_types \o [k \in 1..n |-> type]
              /\ \A k \in 1..Len(before) :
                     delete_selected_furniture(Some(k))
                     => /\ Len(after) = Len(before) - 1
                        /\ \A m \in 1..(k - 1) : after[m] = before[m]
                        /\ \A m \in k..Len(after) : after[m] = before[m + 1]
                        /\ list_types' = SubSeq(list_types, 1, k - 1)
                                           \o SubSeq(list_types, k + 1, Len(before))
              /\ after # before
                     => \/ \E s \in 1..Len(furniture_listbox), q \in 1..MaxQuantity :
                              add_furniture_with_quantity(Some(s), Some(q))
                        \/ \E k \in 1..Len(before) :
                              delete_selected_furniture(Some(k))]_vars
    /\ [](/\ Len(list_types) = Len(selected_furniture_list)
          /\ \A k \in 1..Len(list_types) :
                 /\ list_types[k] \in FurnitureInputs
                 /\ list_types[k] = selected_furniture_list[k][1])
    /\ [][outcome' \in {"returned", "draw_error", "error"}
            => /\ selected_furniture' = list_types
               /\ selected_furniture_list' = selected_furniture_list]_vars

\* Two Nightstands were added, the first was deleted, a Bed was added, and
\* generate_layouts was called with the types of the two remaining entries.
C27_Witness ==
    /\ outcome = "returned"
    /\ selected_furniture_list = <<entry_text("Nightstand", 2), entry_text("Bed", 1)>>
    /\ selected_furniture = <<"Nightstand", "Bed">>

====
